---- MODULE Spec2Model ----
(***************************************************************************)
(* CrackTime Analyzer: the analysis core (core.py), the CSV report writer  *)
(* (report.py) and the command-line batch loop (cli.py) as state machines. *)
(*                                                                         *)
(* Numbers.  Python floats are modelled as binary floating point numbers   *)
(* with a mantissa of MantBits+1 bits and an unbounded exponent; a Python  *)
(* int produced from a float is the same record with an integral value.    *)
(* Entropies (bits) are fixed point numbers with LogBits fraction bits.    *)
(* Characters are code points.                                             *)
(***************************************************************************)
EXTENDS Integers, Sequences, FiniteSets, TLC

VARIABLES hasZxcvbn, call, ret, files, argv, results, idx, pc, stdout

vars == <<hasZxcvbn, call, ret, files, argv, results, idx, pc, stdout>>

---------------------------------------------------------------------------
(* Bounds of the model *)

\* fraction bits of a float's mantissa
MantBits == 24
\* fraction bits of an entropy, and the precision of log2 and 2**x
LogBits == 13
\* extra fraction bits of the per-character entropy sum
GuardBits == 5
\* longest password over Alphabet
MaxLen == 4
\* longest password of pairwise distinct characters
MaxDistinct == 144
\* largest batch given to the command line and largest list given to a report
MaxBatch == 2

---------------------------------------------------------------------------
(* Arithmetic *)

Pow2(n) == 2 ^ n

RECURSIVE Shr(_, _)
Shr(x, k) == IF k <= 0 \/ x = 0 THEN x ELSE Shr(x \div 2, k - 1)

RECURSIVE ILog2(_)
ILog2(n) == IF n < 2 THEN 0 ELSE 1 + ILog2(n \div 2)

Abs(x) == IF x < 0 THEN -x ELSE x

Zero == [sgn |-> 0, m |-> 0, e |-> 0]

RECURSIVE NormUp(_, _)
NormUp(k, e) == IF k >= Pow2(MantBits) THEN [m |-> k, e |-> e] ELSE NormUp(2 * k, e - 1)

RECURSIVE NormDown(_, _)
NormDown(k, e) == IF k < Pow2(MantBits + 1) THEN [m |-> k, e |-> e] ELSE NormDown(k \div 2, e + 1)

\* the float of value sgn * k * 2^x, for an integer k > 0
MkNum(sgn, k, x) ==
    LET n == IF k < Pow2(MantBits) THEN NormUp(k, MantBits + x) ELSE NormDown(k, MantBits + x)
    IN  [sgn |-> sgn, m |-> n.m, e |-> n.e]

\* float(n) of a small integer n
FromInt(n) == IF n = 0 THEN Zero ELSE MkNum(IF n < 0 THEN -1 ELSE 1, Abs(n), 0)

MagLt(a, b) == a.e < b.e \/ (a.e = b.e /\ a.m < b.m)

\* a < b
FLt(a, b) ==
    IF a.sgn # b.sgn THEN a.sgn < b.sgn
    ELSE IF a.sgn = 0 THEN FALSE
    ELSE IF a.sgn = 1 THEN MagLt(a, b) ELSE MagLt(b, a)

FLe(a, b) == ~FLt(b, a)

\* max(a, b)
FMax(a, b) == IF FLt(a, b) THEN b ELSE a

\* k fraction bits of r / d, for 0 <= r < d
RECURSIVE DivBits(_, _, _)
DivBits(r, d, k) ==
    IF k = 0 THEN 0
    ELSE IF 2 * r >= d THEN Pow2(k - 1) + DivBits(2 * r - d, d, k - 1)
    ELSE DivBits(2 * r, d, k - 1)

\* a / b for b # 0, rounded to the mantissa
FDiv(a, b) ==
    IF a.sgn = 0 THEN Zero
    ELSE LET big == a.m >= b.m
             \* the quotient of the mantissas with one extra bit, for rounding
             q2  == IF big THEN Pow2(MantBits + 1) + DivBits(a.m - b.m, b.m, MantBits + 1)
                    ELSE DivBits(a.m, b.m, MantBits + 2)
             q   == (q2 + 1) \div 2
             ex  == IF big THEN a.e - b.e ELSE a.e - b.e - 1
             n   == NormDown(q, ex)
         IN  [sgn |-> a.sgn * b.sgn, m |-> n.m, e |-> n.e]

\* int(a): truncation towards zero
FTrunc(a) ==
    IF a.sgn = 0 \/ a.e < 0 THEN Zero
    ELSE IF a.e >= MantBits THEN a
    ELSE LET k == MantBits - a.e
         IN  [a EXCEPT !.m = (a.m \div Pow2(k)) * Pow2(k)]

IsIntegral(a) == FTrunc(a) = a

\* the fraction bits of log2(x / 2^LogBits), for 2^LogBits <= x < 2^(LogBits+1)
RECURSIVE LogFrac(_, _)
LogFrac(x, k) ==
    IF k = 0 THEN 0
    ELSE LET sq == (x * x) \div Pow2(LogBits)
         IN  IF sq >= Pow2(LogBits + 1)
             THEN Pow2(k - 1) + LogFrac(sq \div 2, k - 1)
             ELSE LogFrac(sq, k - 1)

\* math.log2(n) of an integer n >= 1, in fixed point
Log2Fx(n) ==
    LET il == ILog2(n)
        x  == IF il <= LogBits THEN n * Pow2(LogBits - il) ELSE Shr(n, il - LogBits)
    IN  il * Pow2(LogBits) + LogFrac(x, LogBits)

RECURSIVE SqrtIter(_, _, _)
SqrtIter(n, lo, hi) ==
    IF hi - lo <= 1 THEN lo
    ELSE LET mid == (lo + hi) \div 2
         IN  IF mid * mid <= n THEN SqrtIter(n, mid, hi) ELSE SqrtIter(n, lo, mid)

\* 2^(2^-i) in fixed point
RECURSIVE RootAt(_)
RootAt(i) ==
    IF i = 0 THEN 2 * Pow2(LogBits)
    ELSE SqrtIter(RootAt(i - 1) * Pow2(LogBits), Pow2(LogBits), Pow2(LogBits + 1))

Roots == [i \in 1..LogBits |-> RootAt(i)]

\* 2^(f / 2^LogBits) in fixed point, for 0 <= f < 2^LogBits
RECURSIVE Exp2Frac(_, _)
Exp2Frac(f, i) ==
    IF i > LogBits THEN Pow2(LogBits)
    ELSE LET rest == Exp2Frac(f, i + 1)
         IN  IF (f \div Pow2(LogBits - i)) % 2 = 1
             THEN (rest * Roots[i]) \div Pow2(LogBits)
             ELSE rest


\* 2 ** x for an entropy x: OverflowError from 2^1024 on, 0.0 below the subnormals
FloatMaxExp == 1024

PowTwo(x) ==
    IF x >= FloatMaxExp * Pow2(LogBits) THEN [ok |-> FALSE, val |-> Zero]
    ELSE IF x < (-(FloatMaxExp + 51)) * Pow2(LogBits) THEN [ok |-> TRUE, val |-> Zero]
    ELSE LET n == x \div Pow2(LogBits)
             f == x % Pow2(LogBits)
         IN  [ok |-> TRUE,
              val |-> [sgn |-> 1, m |-> Exp2Frac(f, 1) * Pow2(MantBits - LogBits), e |-> n]]

\* round to the nearest integer, ties to even, of num / den (num >= 0, den > 0)
RoundDiv(num, den) ==
    LET q == num \div den
        r == num % den
    IN  IF 2 * r > den \/ (2 * r = den /\ q % 2 = 1) THEN q + 1 ELSE q

\* round(x, 3) of an entropy: thousandths of a bit
Round3(x) ==
    LET a == Abs(x)
        t == (a \div Pow2(LogBits)) * 1000 + RoundDiv((a % Pow2(LogBits)) * 1000, Pow2(LogBits))
    IN  IF x < 0 THEN -t ELSE t

---------------------------------------------------------------------------
(* Strings of code points and dicts *)

Range(s) == {s[i] : i \in DOMAIN s}

SeqsUpTo(S, n) == UNION {[1..k -> S] : k \in 0..n}

Get(d, k, default) == IF k \in DOMAIN d THEN d[k] ELSE default

IsUpper(c) == c \in 65..90
IsLower(c) == c \in 97..122
IsDigit(c) == c \in 48..57
\* set(string.printable) - set(string.ascii_letters) - set(string.digits)
IsSymbol(c) == c \in (32..47) \cup (58..64) \cup (91..96) \cup (123..126) \cup (9..13)

Ok(v) == [kind |-> "ok", value |-> v]
Raise(exc) == [kind |-> "raise", exc |-> exc]
NoReturn == [kind |-> "none"]

---------------------------------------------------------------------------
(* core.py *)

\* The per-character sum is carried with GuardBits more fraction bits than
\* an entropy, as the double the code holds it in is more precise than the
\* fixed point of the model.

\* the sum of f[lo..hi], halving the range
RECURSIVE SumRange(_, _, _)
SumRange(f, lo, hi) ==
    IF lo > hi THEN 0
    ELSE IF lo = hi THEN f[lo]
    ELSE LET mid == (lo + hi) \div 2
         IN  SumRange(f, lo, mid) + SumRange(f, mid + 1, hi)

\* freq of the code: the count of the character first met at position i,
\* and 0 at a position that repeats an earlier character
FreqAt(password, i) ==
    IF \E j \in 1..(i - 1) : password[j] = password[i] THEN 0
    ELSE Cardinality({j \in 1..Len(password) : password[j] = password[i]})

shannon_entropy_bits_not_per_length(password) ==
    IF Len(password) = 0 THEN 0
    ELSE LET length == Len(password)
             term   == [i \in 1..length |->
                          LET count == FreqAt(password, i)
                          IN  IF count = 0 THEN 0
                              ELSE RoundDiv(count * (Log2Fx(length) - Log2Fx(count))
                                              * Pow2(GuardBits), length)]
             entropy_per_char == SumRange(term, 1, length)
         IN  RoundDiv(entropy_per_char, Pow2(GuardBits))

shannon_entropy_bits(password) ==
    IF Len(password) = 0 THEN 0
    ELSE LET length == Len(password)
             \* -p * log2(p) with p = count / length, for each key of freq
             term   == [i \in 1..length |->
                          LET count == FreqAt(password, i)
                          IN  IF count = 0 THEN 0
                              ELSE RoundDiv(count * (Log2Fx(length) - Log2Fx(count))
                                              * Pow2(GuardBits), length)]
             entropy_per_char == SumRange(term, 1, length)
         IN  RoundDiv(entropy_per_char * length, Pow2(GuardBits))

MaskChar == 42

mask_password_keeps_only_first(pw) ==
    IF Len(pw) = 0 THEN <<>>
    ELSE IF Len(pw) <= 2 THEN [i \in 1..Len(pw) |-> MaskChar]
    ELSE <<pw[1]>> \o [i \in 1..(Len(pw) - 1) |-> MaskChar]

mask_password(pw) ==
    IF Len(pw) = 0 THEN <<>>
    ELSE IF Len(pw) <= 2 THEN [i \in 1..Len(pw) |-> MaskChar]
    ELSE <<pw[1]>> \o [i \in 1..(Len(pw) - 2) |-> MaskChar] \o <<pw[Len(pw)]>>

Bits(n) == n * Pow2(LogBits)

heuristic_score_inclusive(entropy_bits, length) ==
    IF length = 0 THEN 0
    ELSE IF entropy_bits <= Bits(28) THEN 0
    ELSE IF entropy_bits <= Bits(36) THEN 1
    ELSE IF entropy_bits <= Bits(60) THEN 2
    ELSE IF entropy_bits <= Bits(80) THEN 3
    ELSE 4

heuristic_score(entropy_bits, length) ==
    IF length = 0 THEN 0
    ELSE IF entropy_bits < Bits(28) THEN 0
    ELSE IF entropy_bits < Bits(36) THEN 1
    ELSE IF entropy_bits < Bits(60) THEN 2
    ELSE IF entropy_bits < Bits(80) THEN 3
    ELSE 4

One == FromInt(1)

NoteUnavailable == "zxcvbn not available; used Shannon entropy & heuristic score"
NoteError(ex) == "zxcvbn error: " \o ex \o "; falling back to Shannon entropy"
OverflowMsg == "(34, 'Numerical result out of range')"

\* lines 95-108: the result dict
MakeResult(pw, entropy_bits, guesses, score, notes) ==
    LET has_upper  == \E i \in DOMAIN pw : IsUpper(pw[i])
        has_lower  == \E i \in DOMAIN pw : IsLower(pw[i])
        has_digit  == \E i \in DOMAIN pw : IsDigit(pw[i])
        has_symbol == \E i \in DOMAIN pw : IsSymbol(pw[i])
    IN  [password_masked  |-> mask_password(pw),
         length           |-> Len(pw),
         has_upper        |-> has_upper,
         has_lower        |-> has_lower,
         has_digit        |-> has_digit,
         has_symbol       |-> has_symbol,
         charset_size_est |-> (IF has_lower THEN 26 ELSE 0) + (IF has_upper THEN 26 ELSE 0)
                              + (IF has_digit THEN 10 ELSE 0) + (IF has_symbol THEN 32 ELSE 0),
         entropy_bits     |-> Round3(entropy_bits),
         guesses          |-> FTrunc(guesses),
         score            |-> score,
         notes            |-> notes]

\* lines 86-88 and 90-92: the Shannon path; 2 ** entropy_bits may overflow
ShannonPath(pw, notes) ==
    LET entropy_bits == shannon_entropy_bits(pw)
        p == PowTwo(entropy_bits)
    IN  IF ~p.ok THEN Raise("OverflowError")
        ELSE Ok(MakeResult(pw, entropy_bits, FMax(One, p.val),
                           heuristic_score(entropy_bits, Len(pw)), notes))

\* lines 79-83: the estimator's path; z is what zxcvbn(pw) does in this call
ZxcvbnPath(pw, z) ==
    IF z.raises THEN Raise(z.exc)
    ELSE LET zres == z.res
             entropy_bits == Get(zres, "entropy", shannon_entropy_bits(pw))
             \* the default of .get is evaluated whether or not the key is there
             p == PowTwo(entropy_bits)
         IN  IF ~p.ok THEN Raise(OverflowMsg)
             ELSE Ok(MakeResult(pw, entropy_bits,
                                IF "guesses" \in DOMAIN zres
                                THEN FromInt(zres["guesses"]) ELSE FMax(One, p.val),
                                Get(zres, "score", 0), <<>>))

analyze_password(pw, has, z) ==
    IF has
    THEN LET t == ZxcvbnPath(pw, z)
         IN  IF t.kind = "ok" THEN t ELSE ShannonPath(pw, <<NoteError(t.exc)>>)
    ELSE ShannonPath(pw, <<NoteUnavailable>>)


\* a number printed with a fixed count of decimals: whole.frac
\* (the fraction from the leading 18 bits of the mantissa's fraction)
FormatFixed(v, decimals) ==
    LET mult == 10 ^ decimals
    IN  IF v.sgn = 0 THEN [neg |-> FALSE, whole |-> Zero, frac |-> 0, decimals |-> decimals]
        ELSE IF v.e >= MantBits
        THEN [neg |-> v.sgn < 0, whole |-> [v EXCEPT !.sgn = 1], frac |-> 0, decimals |-> decimals]
        ELSE LET k  == MantBits - v.e
                 mr == IF k > 18 THEN Shr(v.m, k - 18) ELSE v.m
                 kr == IF k > 18 THEN 18 ELSE k
                 q  == mr \div Pow2(kr)
                 r  == mr % Pow2(kr)
                 c  == RoundDiv(r * mult, Pow2(kr))
                 w  == IF c = mult THEN q + 1 ELSE q
             IN  [neg |-> v.sgn < 0, whole |-> FromInt(w),
                  frac |-> IF c = mult THEN 0 ELSE c, decimals |-> decimals]

Text(v, decimals, unit) == [number |-> FormatFixed(v, decimals), unit |-> unit]

human_readable_seconds_no_minutes(seconds) ==
    LET minute == FromInt(60)
        hour   == FromInt(3600)
        day    == FromInt(86400)
        year   == FromInt(31557600)
    IN  IF FLt(seconds, One) THEN Text(seconds, 3, "seconds")
        ELSE IF FLt(seconds, hour) THEN Text(seconds, 2, "seconds")
        ELSE IF FLt(seconds, day) THEN Text(FDiv(seconds, hour), 2, "hours")
        ELSE IF FLt(seconds, year) THEN Text(FDiv(seconds, day), 2, "days")
        ELSE Text(FDiv(seconds, year), 2, "years")

human_readable_seconds(seconds) ==
    LET minute == FromInt(60)
        hour   == FromInt(3600)
        day    == FromInt(86400)
        year   == FromInt(31557600)
    IN  IF FLt(seconds, One) THEN Text(seconds, 3, "seconds")
        ELSE IF FLt(seconds, minute) THEN Text(seconds, 2, "seconds")
        ELSE IF FLt(seconds, hour) THEN Text(FDiv(seconds, FromInt(60)), 2, "minutes")
        ELSE IF FLt(seconds, day) THEN Text(FDiv(seconds, hour), 2, "hours")
        ELSE IF FLt(seconds, year) THEN Text(FDiv(seconds, day), 2, "days")
        ELSE Text(FDiv(seconds, year), 2, "years")

\* float(guesses) / float(guesses_per_second)
Divide(guesses, guesses_per_second) ==
    IF guesses_per_second.sgn = 0 THEN Raise("ZeroDivisionError")
    ELSE Ok(FDiv(guesses, guesses_per_second))

estimate_crack_time_from_guesses_rejects_negative_only(guesses, guesses_per_second) ==
    IF FLt(guesses_per_second, Zero) THEN Raise("ValueError")
    ELSE LET d == Divide(guesses, guesses_per_second)
         IN  IF d.kind # "ok" THEN d
             ELSE Ok([seconds |-> d.value,
                      human_readable |-> human_readable_seconds(d.value),
                      guesses_per_second |-> guesses_per_second])

estimate_crack_time_from_guesses(guesses, guesses_per_second) ==
    IF FLe(guesses_per_second, Zero) THEN Raise("ValueError")
    ELSE LET d == Divide(guesses, guesses_per_second)
         IN  IF d.kind # "ok" THEN d
             ELSE Ok([seconds |-> d.value,
                      human_readable |-> human_readable_seconds(d.value),
                      guesses_per_second |-> guesses_per_second])

\* 1e3, 1e9 and 1e10 guesses per second
CRACK_SPEED_PRESETS ==
    [conservative_cpu |-> FromInt(1000),
     mid_gpu          |-> MkNum(1, 1953125, 9),
     fast_gpu         |-> MkNum(1, 9765625, 10)]

---------------------------------------------------------------------------
(* report.py *)

\* the payload save_json_report dumps
save_json_report(meta, res) == [meta |-> meta, results |-> res]

RECURSIVE Join(_, _)
Join(sep, strs) ==
    IF Len(strs) = 0 THEN ""
    ELSE IF Len(strs) = 1 THEN strs[1]
    ELSE strs[1] \o sep \o Join(sep, Tail(strs))

CsvHeader == <<"password_id", "password_masked", "length", "entropy_bits",
               "guesses", "score", "notes">>

CsvRow(i, r) ==
    <<"p" \o ToString(i),
      Get(r, "password_masked", ""),
      Get(r, "length", ""),
      Get(r, "entropy_bits", ""),
      Get(r, "guesses", ""),
      Get(r, "score", ""),
      IF Get(r, "notes", <<>>) # <<>> THEN Join(" | ", r["notes"]) ELSE "">>

\* the rows of the file save_csv_report leaves
save_csv_report_ids_from_zero(res) ==
    IF Len(res) = 0 THEN <<CsvHeader>>
    ELSE <<CsvHeader>> \o [i \in 1..Len(res) |-> CsvRow(i - 1, res[i])]

save_csv_report(res) ==
    IF Len(res) = 0 THEN <<CsvHeader>>
    ELSE <<CsvHeader>> \o [i \in 1..Len(res) |-> CsvRow(i, res[i])]

---------------------------------------------------------------------------
(* Inputs *)

\* "a", "b" and "1"
Alphabet == {97, 98, 49}

\* a password of n pairwise distinct caseless characters
DistinctPassword(n) == [i \in 1..n |-> 19968 + i]

\* "P@ssw0rd!", "aaaa" and "abcd" of tests/test_core.py
ExamplePasswords ==
    {<<80, 64, 115, 115, 119, 48, 114, 100, 33>>, <<97, 97, 97, 97>>, <<97, 98, 99, 100>>}

Passwords ==
    SeqsUpTo(Alphabet, MaxLen) \cup ExamplePasswords
    \cup {DistinctPassword(n) : n \in {k \in 0..MaxDistinct : k <= 20 \/ k >= MaxDistinct - 1}}

\* what zxcvbn(pw) may do: raise, or return a dict with some of the keys
\* 'entropy' (float), 'guesses' (a count of guesses, an int >= 1) and 'score' (0-4)
ZxcvbnKeys == {"entropy", "guesses", "score"}

ZxcvbnResults ==
    {[k \in K |-> full[k]] :
        K \in SUBSET ZxcvbnKeys,
        full \in [entropy : {Bits(-2), Bits(40), Bits(1100)},
                  guesses : {1, 1000000},
                  score   : 0..4]}

ZxcvbnOutcomes ==
    {[raises |-> TRUE, exc |-> "estimator failed"]}
    \cup {[raises |-> FALSE, res |-> d] : d \in ZxcvbnResults}

\* the estimator is not called when it was not imported
NotCalled == [raises |-> FALSE, res |-> <<>>]

Outcomes(has) == IF has THEN ZxcvbnOutcomes ELSE {NotCalled}

ScoreEntropies == {Bits(n) + d : n \in {0, 28, 36, 60, 80, 200}, d \in {-1, 0, 1}}

GuessInputs == {0, 1, 30, 59, 60, 61, 1000, 3599, 3600, 3601, 86399, 86400, 86401,
                1000000, 31557599, 31557600, 63115200}

RateInputs == {-5, -1, 0, 1, 2, 7, 1000}

\* results handed to a report: results of the analysis, and a dict without keys
ReportResults ==
    {analyze_password(pw, FALSE, NotCalled).value : pw \in ExamplePasswords}
    \cup {[length |-> 1]}

Meta == [tool |-> "CrackTime Analyzer", version |-> "0.1.0", generated_at |-> "now"]

NoFiles == [json |-> <<>>, csv |-> <<>>]

NoCall == [op |-> "none"]

---------------------------------------------------------------------------
(* The functions of the package: one call, on any input, after the import *)

Init ==
    /\ hasZxcvbn \in BOOLEAN
    /\ call = NoCall
    /\ ret = NoReturn
    /\ files = NoFiles
    /\ argv = <<>>
    /\ results = <<>>
    /\ idx = 0
    /\ pc = "import"
    /\ stdout = <<>>

CallAnalyzePassword ==
    /\ pc = "import"
    /\ \E pw \in Passwords, z \in Outcomes(hasZxcvbn) :
         /\ call' = [op |-> "analyze_password", password |-> pw, z |-> z]
         /\ ret' = analyze_password(pw, hasZxcvbn, z)
    /\ pc' = "returned"
    /\ UNCHANGED <<hasZxcvbn, files, argv, results, idx, stdout>>

CallShannonEntropyBits ==
    /\ pc = "import"
    /\ \E pw \in Passwords :
         /\ call' = [op |-> "shannon_entropy_bits", password |-> pw]
         /\ ret' = Ok(shannon_entropy_bits(pw))
    /\ pc' = "returned"
    /\ UNCHANGED <<hasZxcvbn, files, argv, results, idx, stdout>>

CallMaskPassword ==
    /\ pc = "import"
    /\ \E pw \in Passwords :
         /\ call' = [op |-> "mask_password", password |-> pw]
         /\ ret' = Ok(mask_password(pw))
    /\ pc' = "returned"
    /\ UNCHANGED <<hasZxcvbn, files, argv, results, idx, stdout>>

CallHeuristicScore ==
    /\ pc = "import"
    /\ \E e \in ScoreEntropies, l \in 0..MaxLen :
         /\ call' = [op |-> "heuristic_score", entropy_bits |-> e, length |-> l]
         /\ ret' = Ok(heuristic_score(e, l))
    /\ pc' = "returned"
    /\ UNCHANGED <<hasZxcvbn, files, argv, results, idx, stdout>>

CallEstimateCrackTime ==
    /\ pc = "import"
    /\ \E g \in GuessInputs, r \in RateInputs :
         /\ call' = [op |-> "estimate_crack_time_from_guesses",
                     guesses |-> g, guesses_per_second |-> r]
         /\ ret' = estimate_crack_time_from_guesses(FromInt(g), FromInt(r))
    /\ pc' = "returned"
    /\ UNCHANGED <<hasZxcvbn, files, argv, results, idx, stdout>>

CallSaveCsvReport ==
    /\ pc = "import"
    /\ \E res \in SeqsUpTo(ReportResults, MaxBatch) :
         /\ call' = [op |-> "save_csv_report", results |-> res]
         /\ files' = [files EXCEPT !.csv = save_csv_report(res)]
         /\ ret' = Ok("None")
    /\ pc' = "returned"
    /\ UNCHANGED <<hasZxcvbn, argv, results, idx, stdout>>

CallSaveJsonReport ==
    /\ pc = "import"
    /\ \E res \in SeqsUpTo(ReportResults, MaxBatch) :
         /\ call' = [op |-> "save_json_report", results |-> res]
         /\ files' = [files EXCEPT !.json = <<save_json_report(Meta, res)>>]
         /\ ret' = Ok("None")
    /\ pc' = "returned"
    /\ UNCHANGED <<hasZxcvbn, argv, results, idx, stdout>>

Next ==
    \/ CallAnalyzePassword
    \/ CallShannonEntropyBits
    \/ CallMaskPassword
    \/ CallHeuristicScore
    \/ CallEstimateCrackTime
    \/ CallSaveCsvReport
    \/ CallSaveJsonReport

Spec == Init /\ [][Next]_vars

---------------------------------------------------------------------------
(* cli.py: main *)

PresetNames == {"conservative_cpu", "mid_gpu", "fast_gpu"}

\* --custom-speed: absent (None) or a float
CustomSpeeds == {[given |-> FALSE, value |-> 0], [given |-> TRUE, value |-> 0],
                 [given |-> TRUE, value |-> 500], [given |-> TRUE, value |-> -5]}

MainPasswords == {<<>>, <<97, 98>>, <<97, 98, 99, 100>>, DistinctPassword(MaxDistinct)}

Argvs ==
    [passwords     : SeqsUpTo(MainPasswords, MaxBatch) \ {<<>>},
     preset        : PresetNames,
     custom_speed  : CustomSpeeds,
     output_prefix : {"", "report"}]

\* what the estimator does in a batch: fail, return every key, return no key
MainOutcomes(has) ==
    IF has
    THEN {[raises |-> TRUE, exc |-> "estimator failed"],
          [raises |-> FALSE, res |-> [entropy |-> Bits(40), guesses |-> 1000000, score |-> 3]],
          [raises |-> FALSE, res |-> <<>>]}
    ELSE {NotCalled}

\* line 42
Speed(args) ==
    IF args.custom_speed.given /\ args.custom_speed.value # 0 /\ args.custom_speed.value > 0
    THEN FromInt(args.custom_speed.value)
    ELSE CRACK_SPEED_PRESETS[args.preset]

InitMain ==
    /\ hasZxcvbn \in BOOLEAN
    /\ call = NoCall
    /\ ret = NoReturn
    /\ files = NoFiles
    /\ argv \in Argvs
    /\ results = <<>>
    /\ idx = 1
    /\ pc = "analyze"
    /\ stdout = <<>>

\* lines 38-47: one iteration of the loop; an exception leaves main
MainAnalyze ==
    /\ pc = "analyze"
    /\ \E z \in MainOutcomes(hasZxcvbn) :
         LET pw == argv.passwords[idx]
             a  == analyze_password(pw, hasZxcvbn, z)
             t  == estimate_crack_time_from_guesses(Get(a.value, "guesses", One), Speed(argv))
         IN  IF a.kind # "ok"
             THEN /\ pc' = "crashed"
                  /\ ret' = a
                  /\ UNCHANGED <<results, idx>>
             ELSE IF t.kind # "ok"
             THEN /\ pc' = "crashed"
                  /\ ret' = t
                  /\ UNCHANGED <<results, idx>>
             ELSE /\ results' = Append(results,
                        [k \in DOMAIN a.value \cup {"crack_time_seconds", "crack_time_human", "assumptions"} |->
                            IF k = "crack_time_seconds" THEN t.value.seconds
                            ELSE IF k = "crack_time_human" THEN t.value.human_readable
                            ELSE IF k = "assumptions"
                            THEN [preset |-> argv.preset,
                                  guesses_per_second |-> t.value.guesses_per_second]
                            ELSE a.value[k]])
                  /\ idx' = IF idx = Len(argv.passwords) THEN 1 ELSE idx + 1
                  /\ pc' = IF idx = Len(argv.passwords) THEN "print" ELSE "analyze"
                  /\ ret' = ret
    /\ UNCHANGED <<hasZxcvbn, call, files, argv, stdout>>

\* lines 50-60: the summary of result idx
MainPrint ==
    /\ pc = "print"
    /\ LET r == results[idx]
       IN  stdout' = Append(stdout,
               [number |-> idx, masked |-> r.password_masked, length |-> r.length,
                entropy_bits |-> r.entropy_bits, guesses |-> r.guesses, score |-> r.score,
                preset |-> r.assumptions.preset,
                guesses_per_second |-> r.assumptions.guesses_per_second,
                crack_time_human |-> r.crack_time_human,
                notes |-> IF r.notes # <<>> THEN Join(" | ", r.notes) ELSE ""])
    /\ idx' = idx + 1
    /\ pc' = IF idx < Len(results) THEN "print"
             ELSE IF argv.output_prefix # "" THEN "save" ELSE "done"
    /\ UNCHANGED <<hasZxcvbn, call, ret, files, argv, results>>

\* lines 63-70
MainSave ==
    /\ pc = "save"
    /\ files' = [json |-> <<save_json_report(Meta, results)>>, csv |-> save_csv_report(results)]
    /\ pc' = "done"
    /\ UNCHANGED <<hasZxcvbn, call, ret, argv, results, idx, stdout>>

NextMain == MainAnalyze \/ MainPrint \/ MainSave

SpecMain == InitMain /\ [][NextMain]_vars

---------------------------------------------------------------------------
(* Properties *)

Called(op) == pc = "returned" /\ call.op = op

\* analyze_password was called with the estimator missing or raising
FallbackCase == Called("analyze_password") /\ (~hasZxcvbn \/ call.z.raises)

\* C1: for every password and on every estimation path, analyze_password
\* returns a result whose 'guesses' is an integer >= 1.
C1_GuessesAtLeastOne ==
    Called("analyze_password") =>
        /\ ret.kind = "ok"
        /\ IsIntegral(ret.value.guesses)
        /\ FLe(One, ret.value.guesses)

\* Every result analyze_password does return has an integral 'guesses' >= 1.
ReturnedGuessesAtLeastOne ==
    (Called("analyze_password") /\ ret.kind = "ok") =>
        (IsIntegral(ret.value.guesses) /\ FLe(One, ret.value.guesses))

\* C2: for every password and on every estimation path, analyze_password
\* returns a result whose 'score' is an integer in 0..4.
C2_ScoreInRange ==
    Called("analyze_password") => (ret.kind = "ok" /\ ret.value.score \in 0..4)

\* Every result analyze_password does return has a 'score' in 0..4.
ReturnedScoreInRange ==
    (Called("analyze_password") /\ ret.kind = "ok") => ret.value.score \in 0..4

\* C3: when the estimator is missing or raises, analyze_password still
\* returns a complete result: entropy, guesses and score of the Shannon path
\* and a note describing the fallback; no error reaches the caller.
C3_FallbackNeverFails ==
    FallbackCase =>
        LET pw == call.password
            h  == shannon_entropy_bits(pw)
        IN  /\ ret.kind = "ok"
            /\ ret.value.entropy_bits = Round3(h)
            /\ ret.value.guesses = FTrunc(FMax(One, PowTwo(h).val))
            /\ ret.value.score = heuristic_score(h, Len(pw))
            /\ Len(ret.value.notes) = 1
            /\ ret.value.notes[1] =
                 IF hasZxcvbn THEN NoteError(call.z.exc) ELSE NoteUnavailable

\* When the fallback does return, the result is the Shannon path's, with its note.
ReturnedFallbackIsShannon ==
    (FallbackCase /\ ret.kind = "ok") =>
        LET pw == call.password
            h  == shannon_entropy_bits(pw)
        IN  /\ ret.value.entropy_bits = Round3(h)
            /\ ret.value.guesses = FTrunc(FMax(One, PowTwo(h).val))
            /\ ret.value.score = heuristic_score(h, Len(pw))
            /\ Len(ret.value.notes) = 1
            /\ ret.value.notes[1] =
                 IF hasZxcvbn THEN NoteError(call.z.exc) ELSE NoteUnavailable

\* C4: estimate_crack_time_from_guesses fails with ValueError for every
\* guesses when the rate is <= 0; no division is attempted and no seconds or
\* human_readable is produced.
C4_NonPositiveRateRejected ==
    (Called("estimate_crack_time_from_guesses") /\ call.guesses_per_second <= 0) =>
        ret = Raise("ValueError")

C4_Witness ==
    /\ Called("estimate_crack_time_from_guesses")
    /\ call.guesses_per_second = 0
    /\ call.guesses = 1000000
    /\ ret.kind = "raise"

MaskedAs(pw, m) ==
    /\ Len(m) = Len(pw)
    /\ Len(pw) > 2 =>
         /\ m[1] = pw[1]
         /\ m[Len(pw)] = pw[Len(pw)]
         /\ \A i \in 2..(Len(pw) - 1) : m[i] = 42
    /\ Len(pw) <= 2 => \A i \in 1..Len(pw) : m[i] = 42

\* C5: the masked form has the length of the password; longer than 2, it
\* keeps the first and the last character and stars the interior; of length
\* <= 2, it is all stars: "ab" -> "**", "abcd" -> "a**d", "" -> "".
C5_MaskShape ==
    /\ Called("mask_password") =>
         /\ MaskedAs(call.password, ret.value)
         /\ call.password = <<97, 98>> => ret.value = <<42, 42>>
         /\ call.password = <<97, 98, 99, 100>> => ret.value = <<97, 42, 42, 100>>
         /\ call.password = <<>> => ret.value = <<>>
    /\ (Called("analyze_password") /\ ret.kind = "ok") =>
         MaskedAs(call.password, ret.value.password_masked)

C5_Witness ==
    /\ Called("mask_password")
    /\ call.password = <<97, 98, 99, 100>>
    /\ ret.value = <<97, 42, 42, 100>>

\* the seconds of one unit, and the unit the ladder gives to g / r seconds
UnitSeconds(unit) ==
    IF unit = "seconds" THEN 1
    ELSE IF unit = "minutes" THEN 60
    ELSE IF unit = "hours" THEN 3600
    ELSE IF unit = "days" THEN 86400
    ELSE 31557600

LadderUnit(g, r) ==
    IF g \div r < 60 THEN "seconds"
    ELSE IF g \div r < 3600 THEN "minutes"
    ELSE IF g \div r < 86400 THEN "hours"
    ELSE IF g \div r < 31557600 THEN "days"
    ELSE "years"

\* g / (r * u) to d decimals, as an integer count of 10^-d
Scaled(g, r, u, d) ==
    IF u = 1 THEN RoundDiv(g * (10 ^ d), r)
    ELSE IF u = 60 THEN RoundDiv(g * 5, r * 3)
    ELSE RoundDiv(g, r * (u \div 100))

\* C6: for a rate > 0 the seconds are guesses / rate and the unit follows
\* the ladder 60 / 3600 / 86400 / 31557600 seconds, the value being the
\* seconds divided by the unit; 1,000,000 guesses at 1,000 per second are
\* 1000 seconds, "16.67 minutes".
C6_SecondsAndUnit ==
    (Called("estimate_crack_time_from_guesses") /\ call.guesses_per_second > 0) =>
        LET g == call.guesses
            r == call.guesses_per_second
            h == ret.value.human_readable
            d == IF g < r THEN 3 ELSE 2
            x == Scaled(g, r, UnitSeconds(h.unit), d)
        IN  /\ ret.kind = "ok"
            /\ FLe(FromInt(g \div r), ret.value.seconds)
            /\ FLe(ret.value.seconds, FromInt(g \div r + 1))
            /\ g % r = 0 => ret.value.seconds = FromInt(g \div r)
            /\ h.unit = LadderUnit(g, r)
            /\ h.number.decimals = d
            /\ h.number.whole = FromInt(x \div (10 ^ d))
            /\ h.number.frac = x % (10 ^ d)
            /\ (g = 1000000 /\ r = 1000) =>
                 /\ ret.value.seconds = FromInt(1000)
                 /\ h = [number |-> [neg |-> FALSE, whole |-> FromInt(16), frac |-> 67,
                                     decimals |-> 2],
                         unit |-> "minutes"]

C6_Witness ==
    /\ Called("estimate_crack_time_from_guesses")
    /\ call.guesses = 1000000
    /\ call.guesses_per_second = 1000
    /\ ret.kind = "ok"
    /\ ret.value.human_readable.unit = "minutes"

Reported(i) == \E k \in DOMAIN stdout : stdout[k].number = i

\* C7: an error raised while one password of a batch is processed does not
\* crash the batch: every other password is still analyzed and reported.
C7_BatchIsolated ==
    pc = "crashed" => \A i \in (1..Len(argv.passwords)) \ {idx} : Reported(i)

\* A batch that is not crashed reports every password, each result being
\* that of its own password.
FinishedBatchReportsAll ==
    pc = "done" =>
        /\ Len(stdout) = Len(argv.passwords)
        /\ \A i \in 1..Len(argv.passwords) :
             /\ stdout[i].number = i
             /\ stdout[i].masked = mask_password(argv.passwords[i])

\* the password_id of row i
IdOf(i) == IF i <= 4 THEN <<"p1", "p2", "p3", "p4">>[i] ELSE "p" \o ToString(i)

\* C8: save_csv_report writes the header row and then one row per result,
\* in order, the i-th with password_id "p<i>"; only the header for no result.
C8_CsvRows ==
    Called("save_csv_report") =>
        LET res  == call.results
            rows == files.csv
        IN  /\ Len(rows) = Len(res) + 1
            /\ rows[1] = <<"password_id", "password_masked", "length", "entropy_bits",
                           "guesses", "score", "notes">>
            /\ \A i \in 1..Len(res) :
                 /\ Len(rows[i + 1]) = 7
                 /\ rows[i + 1][1] = IdOf(i)
                 /\ "password_masked" \in DOMAIN res[i] =>
                      rows[i + 1][2] = res[i].password_masked
                 /\ rows[i + 1][3] = res[i].length

C8_Witness ==
    /\ Called("save_csv_report")
    /\ Len(call.results) = 2
    /\ Len(files.csv) = 3
    /\ files.csv[3][1] = "p2"

\* C9: the score is 0 for length 0; otherwise 0 below 28 bits, 1 in [28, 36),
\* 2 in [36, 60), 3 in [60, 80) and 4 from 80 on: independent of a nonzero
\* length and non-decreasing in the entropy.
C9_ScoreLadder ==
    Called("heuristic_score") =>
        LET e == call.entropy_bits
            l == call.length
            s == ret.value
        IN  /\ s \in 0..4
            /\ l = 0 => s = 0
            /\ l # 0 =>
                 /\ s = 0 <=> e < Bits(28)
                 /\ s = 1 <=> (Bits(28) <= e /\ e < Bits(36))
                 /\ s = 2 <=> (Bits(36) <= e /\ e < Bits(60))
                 /\ s = 3 <=> (Bits(60) <= e /\ e < Bits(80))
                 /\ s = 4 <=> Bits(80) <= e
                 /\ \A e2 \in ScoreEntropies, l2 \in 1..MaxLen :
                      e <= e2 => s <= heuristic_score(e2, l2)

C9_Witness ==
    /\ Called("heuristic_score")
    /\ call.entropy_bits = Bits(28)
    /\ call.length = 1
    /\ ret.value = 1

\* 0.1 bit, the tolerance of tests/test_core.py
Tolerance == Bits(1) \div 10

Count(pw, c) == Cardinality({i \in DOMAIN pw : pw[i] = c})

\* C10: the Shannon entropy is length * sum over the distinct characters of
\* -p * log2(p), that is -log2(p) summed over the occurrences: 0 for the
\* empty string and for one repeated character, length * log2(k) for k
\* characters equally frequent ("abcd": 8 bits), within the tests' 0.1 bit.
C10_ShannonEntropy ==
    Called("shannon_entropy_bits") =>
        LET pw == call.password
            n  == Len(pw)
            k  == Cardinality(Range(pw))
            h  == ret.value
            perOccurrence == [i \in 1..n |-> Log2Fx(n) - Log2Fx(Count(pw, pw[i]))]
        IN  /\ n = 0 => h = 0
            /\ k = 1 => h = 0
            /\ Abs(h - SumRange(perOccurrence, 1, n)) <= Tolerance
            /\ (n > 0 /\ \A c \in Range(pw) : Count(pw, c) * k = n) =>
                 Abs(h - n * Log2Fx(k)) <= Tolerance
            /\ pw = <<97, 98, 99, 100>> => h = Bits(8)

C10_Witness ==
    /\ Called("shannon_entropy_bits")
    /\ call.password = <<97, 98, 99, 100>>
    /\ ret.value = Bits(8)

====
